---- MODULE Spec2Model ----
(***************************************************************************)
(* Model of process_icons.py: a script that makes sure two destination     *)
(* directories exist, opens one source image and, for each of three sizes, *)
(* resizes it and saves the result in both directories.                    *)
(*                                                                         *)
(* The filesystem is the script's input.  A directory entry is "absent",   *)
(* a "dir" or a "file" (os.path.exists is true of both); a file holds a    *)
(* record describing its content.  Library calls are modelled by their     *)
(* outcomes: os.makedirs creates the missing parent and the directory or   *)
(* raises; Image.open raises on a missing or unidentifiable file and reads *)
(* only the header otherwise; Image.resize decodes the pixel data and      *)
(* raises on truncated data; Image.save either writes the whole file or    *)
(* raises before the file is changed.                                      *)
(***************************************************************************)
EXTENDS Integers, Sequences, FiniteSets, TLC

VARIABLES kind, files, pc, run, img, idx, resized_img, stdout, exitCode,
          raised, writes, produced, kind0, files0, prevOk

vars == <<kind, files, pc, run, img, idx, resized_img, stdout, exitCode,
          raised, writes, produced, kind0, files0, prevOk>>

-----------------------------------------------------------------------------
(* Bounds *)

\* number of consecutive executions of the script that are explored
MaxRuns == 2

-----------------------------------------------------------------------------
(* Paths *)

source_path == "C:/Users/Administrator/.gemini/antigravity/brain/a95a8bed-cbac-44a9-a43c-18bee19e65ae/web_scraper_spider_icon_1769348297278.png"
dest_dir == "D:\\AI_project\\web-scraper\\src\\icons"
dist_dir == "D:\\AI_project\\web-scraper\\dist\\icons"

\* the directory that holds d (the one os.makedirs creates when missing)
Parent(d) == IF d = dest_dir THEN "D:\\AI_project\\web-scraper\\src"
                             ELSE "D:\\AI_project\\web-scraper\\dist"

DestDirs == {dest_dir, dist_dir}
Dirs == DestDirs \cup {Parent(d) : d \in DestDirs}

\* os.path.join on the platform of the hardcoded paths
Join(dir, name) == dir \o "\\" \o name

\* variant: the last size is left out of the list
sizesShort == <<16, 48>>

\* variant: the list is not in ascending order
sizesUnordered == <<48, 16, 128>>

sizes == <<16, 48, 128>>

\* f"icon{size}.png"
FileName(size) == "icon" \o ToString(size) \o ".png"

\* file names the model tracks in a destination directory
IconNames == {"icon16.png", "icon48.png", "icon128.png"}
OtherNames == {"readme.txt", "icon16 (1).png", "icon48 (1).png", "icon128 (1).png"}
Names == IconNames \cup OtherNames
\* names a directory may hold before the first run
OldNames == {"icon16.png", "icon128.png", "readme.txt"}

DestPaths == {Join(d, n) : d \in DestDirs, n \in Names}
AllPaths == DestPaths \cup {source_path}

-----------------------------------------------------------------------------
(* File contents *)

NoFile == [kind |-> "none", w |-> 0, h |-> 0, of |-> ""]
\* a zero-byte or otherwise unidentifiable file
Corrupt == [kind |-> "corrupt", w |-> 0, h |-> 0, of |-> ""]
Picture(w, h, id) == [kind |-> "image", w |-> w, h |-> h, of |-> id]
\* a file with a valid header whose pixel data is cut short
Truncated(w, h, id) == [kind |-> "truncated", w |-> w, h |-> h, of |-> id]
\* what an earlier, unrelated tool left in a destination directory
Stale == Picture(32, 32, "old")

SourceContents == {NoFile, Corrupt, Picture(512, 512, "A"), Picture(300, 200, "B"),
                   Truncated(512, 512, "T")}

NoImage == NoFile

\* variant: the resize keeps the aspect ratio of the source (as thumbnail does)
ResizeKeepAspect(image, size) ==
    Picture(size, (size * image.h) \div image.w, image.of)

\* img.resize((size, size), LANCZOS): a square image whatever the source's shape
Resize(image, size) == Picture(size, size, image.of)

-----------------------------------------------------------------------------
(* Library calls *)

\* os.path.exists: true of a directory and of a regular file alike
exists(k, d) == k[d] # "absent"

\* os.makedirs(d) for a d that does not exist: the outcomes are the directory
\* tree it leaves and the error it raises ("" when it returns normally).
\* The parent is created first; either mkdir may be refused.
makedirs(k, d) ==
    LET p == Parent(d) IN
    IF k[p] = "file"
    THEN {[kind |-> k, err |-> "NotADirectoryError"]}
    ELSE IF k[p] = "absent"
    THEN {[kind |-> k, err |-> "PermissionError"],
          [kind |-> [k EXCEPT ![p] = "dir"], err |-> "PermissionError"],
          [kind |-> [k EXCEPT ![p] = "dir", ![d] = "dir"], err |-> ""]}
    ELSE {[kind |-> k, err |-> "PermissionError"],
          [kind |-> [k EXCEPT ![d] = "dir"], err |-> ""]}

\* variant: an existing file is kept and the image goes to "<name> (1).png"
SaveTargetUnique(fs, path) ==
    IF fs[path] = NoFile
    THEN path
    ELSE LET d == CHOOSE x \in DestDirs : \E s \in {16, 48, 128} : path = Join(x, FileName(s))
             s == CHOOSE x \in {16, 48, 128} : path = Join(d, FileName(x))
         IN  Join(d, "icon" \o ToString(s) \o " (1).png")

\* the file Image.save(path) opens for writing: exactly the path it is given
SaveTarget(fs, path) == path

\* errors Image.save may raise for a file in dir ("" = the save succeeds)
SaveErrors(k, dir) ==
    IF k[dir] = "dir" THEN {"", "Permission denied"} ELSE {"NotADirectoryError"}

\* Image.save: the target holds the image afterwards, replacing what was there
Save(fs, path, data) == [fs EXCEPT ![SaveTarget(fs, path)] = data]

-----------------------------------------------------------------------------
(* State derived from the loop variable *)

size == sizes[idx]
src_save_path == Join(dest_dir, FileName(size))
dist_save_path == Join(dist_dir, FileName(size))

SavedLine(path) == "Saved " \o path
ErrorLine(e) == "Error processing image: " \o e

Messages == {"No such file or directory", "cannot identify image file",
             "image file is truncated", "Permission denied",
             "NotADirectoryError", "PermissionError"}

\* the run ended and every step of it succeeded
Succeeded == pc = "done" /\ raised = ""
Ended == pc \in {"done", "crashed"}

-----------------------------------------------------------------------------
(* Initial states: every filesystem the script may be started on *)

TypeOK ==
    /\ kind \in [Dirs -> {"absent", "dir", "file"}]
    /\ DOMAIN files = AllPaths
    /\ pc \in {"prep_dest", "prep_dist", "open", "for", "resize", "save_src",
               "print_src", "save_dist", "print_dist", "except", "done", "crashed"}
    /\ run \in 1..(MaxRuns + 1)
    /\ idx \in 0..Len(sizes)
    /\ exitCode \in {-1, 0, 1}

Init ==
    /\ kind \in {k \in [Dirs -> {"absent", "dir", "file"}] :
                    \A d \in DestDirs : exists(k, d) => k[Parent(d)] = "dir"}
    /\ \E src \in SourceContents, old \in [DestDirs -> SUBSET OldNames] :
          files = [p \in AllPaths |->
                     IF p = source_path THEN src
                     ELSE IF \E d \in DestDirs : /\ kind[d] = "dir"
                                                 /\ \E n \in old[d] : p = Join(d, n)
                          THEN Stale
                          ELSE NoFile]
    /\ pc = "prep_dest"
    /\ run = 1
    /\ img = NoImage
    /\ idx = 0
    /\ resized_img = NoImage
    /\ stdout = <<>>
    /\ exitCode = -1
    /\ raised = ""
    /\ writes = <<>>
    /\ produced = <<>>
    /\ kind0 = kind
    /\ files0 = files
    /\ prevOk = FALSE

-----------------------------------------------------------------------------
(* Steps of the script *)

\* an exception raised inside the try block: control moves to the handler
Raise(e) ==
    /\ raised' = e
    /\ pc' = "except"

\* an exception raised outside the try block: traceback, exit status 1
Uncaught(e) ==
    /\ raised' = e
    /\ pc' = "crashed"
    /\ exitCode' = 1

\* variant: an existing directory is emptied before use
PrepareDirFresh(d, next) ==
    /\ UNCHANGED <<run, img, idx, resized_img, stdout, writes, produced,
                   kind0, files0, prevOk>>
    /\ IF exists(kind, d)
       THEN /\ pc' = next
            /\ files' = [p \in AllPaths |->
                           IF \E n \in Names : p = Join(d, n) THEN NoFile ELSE files[p]]
            /\ UNCHANGED <<kind, raised, exitCode>>
       ELSE \E o \in makedirs(kind, d) :
               /\ kind' = o.kind
               /\ UNCHANGED files
               /\ IF o.err = ""
                  THEN pc' = next /\ UNCHANGED <<raised, exitCode>>
                  ELSE Uncaught(o.err)

\* if not os.path.exists(d): os.makedirs(d)
PrepareDir(d, next) ==
    /\ UNCHANGED <<files, run, img, idx, resized_img, stdout, writes, produced,
                   kind0, files0, prevOk>>
    /\ IF exists(kind, d)
       THEN /\ pc' = next
            /\ UNCHANGED <<kind, raised, exitCode>>
       ELSE \E o \in makedirs(kind, d) :
               /\ kind' = o.kind
               /\ IF o.err = ""
                  THEN pc' = next /\ UNCHANGED <<raised, exitCode>>
                  ELSE Uncaught(o.err)

PrepareDestDir == pc = "prep_dest" /\ PrepareDir(dest_dir, "prep_dist")

PrepareDistDir == pc = "prep_dist" /\ PrepareDir(dist_dir, "open")

\* img = Image.open(source_path)
OpenImage ==
    /\ pc = "open"
    /\ UNCHANGED <<kind, files, run, idx, resized_img, stdout, exitCode, writes,
                   produced, kind0, files0, prevOk>>
    /\ LET f == files[source_path] IN
       IF f.kind = "none"
       THEN Raise("No such file or directory") /\ UNCHANGED img
       ELSE IF f.kind = "corrupt"
       THEN Raise("cannot identify image file") /\ UNCHANGED img
       ELSE img' = f /\ pc' = "for" /\ UNCHANGED raised

\* for size in sizes: take the next size, or fall out of the loop and end
ForSize ==
    /\ pc = "for"
    /\ UNCHANGED <<kind, files, run, img, resized_img, stdout, raised, writes,
                   produced, kind0, files0, prevOk>>
    /\ IF idx < Len(sizes)
       THEN idx' = idx + 1 /\ pc' = "resize" /\ UNCHANGED exitCode
       ELSE pc' = "done" /\ exitCode' = 0 /\ UNCHANGED idx

\* resized_img = img.resize((size, size), Image.Resampling.LANCZOS)
ResizeImage ==
    /\ pc = "resize"
    /\ UNCHANGED <<kind, files, run, img, idx, stdout, exitCode, writes,
                   kind0, files0, prevOk>>
    /\ IF img.kind = "truncated"
       THEN Raise("image file is truncated") /\ UNCHANGED <<resized_img, produced>>
       ELSE /\ resized_img' = Resize(img, size)
            /\ produced' = Append(produced, size)
            /\ pc' = "save_src"
            /\ UNCHANGED raised

\* variant: the failure of a save is handled inside the loop body, and the
\* loop goes on with the next size
SaveToContinue(dir, path, next) ==
    /\ UNCHANGED <<kind, run, img, idx, resized_img, exitCode, produced,
                   kind0, files0, prevOk>>
    /\ \E e \in SaveErrors(kind, dir) :
          IF e = ""
          THEN /\ files' = Save(files, path, resized_img)
               /\ writes' = Append(writes, [path |-> SaveTarget(files, path),
                                            data |-> resized_img])
               /\ pc' = next
               /\ UNCHANGED <<raised, stdout>>
          ELSE /\ raised' = e
               /\ stdout' = Append(stdout, "Error processing image: " \o e)
               /\ pc' = "for"
               /\ UNCHANGED <<files, writes>>

\* resized_img.save(path)
SaveTo(dir, path, next) ==
    /\ UNCHANGED <<kind, run, img, idx, resized_img, stdout, exitCode, produced,
                   kind0, files0, prevOk>>
    /\ \E e \in SaveErrors(kind, dir) :
          IF e = ""
          THEN /\ files' = Save(files, path, resized_img)
               /\ writes' = Append(writes, [path |-> SaveTarget(files, path),
                                            data |-> resized_img])
               /\ pc' = next
               /\ UNCHANGED raised
          ELSE Raise(e) /\ UNCHANGED <<files, writes>>

\* print(f"Saved {path}")
PrintSaved(path, next) ==
    /\ stdout' = Append(stdout, SavedLine(path))
    /\ pc' = next
    /\ UNCHANGED <<kind, files, run, img, idx, resized_img, exitCode, raised,
                   writes, produced, kind0, files0, prevOk>>

SaveSrc == pc = "save_src" /\ SaveTo(dest_dir, src_save_path, "print_src")

PrintSrc == pc = "print_src" /\ PrintSaved(src_save_path, "save_dist")

SaveDist == pc = "save_dist" /\ SaveTo(dist_dir, dist_save_path, "print_dist")

\* variant: the second print names the src-side path again
PrintDistWrongPath == pc = "print_dist" /\ PrintSaved(src_save_path, "for")

PrintDist == pc = "print_dist" /\ PrintSaved(dist_save_path, "for")

\* variant: the handler lets the exception through
HandleExceptionReraise ==
    /\ pc = "except"
    /\ pc' = "crashed"
    /\ exitCode' = 1
    /\ UNCHANGED <<kind, files, run, img, idx, resized_img, stdout, raised, writes,
                   produced, kind0, files0, prevOk>>

\* variant: the handler removes the files the run has written
HandleExceptionRollback ==
    /\ pc = "except"
    /\ stdout' = Append(stdout, ErrorLine(raised))
    /\ pc' = "done"
    /\ exitCode' = 0
    /\ files' = [p \in AllPaths |->
                   IF \E i \in 1..Len(writes) : writes[i].path = p
                   THEN NoFile ELSE files[p]]
    /\ UNCHANGED <<kind, run, img, idx, resized_img, raised, writes,
                   produced, kind0, files0, prevOk>>

\* except Exception as e: print(f"Error processing image: {e}")
HandleException ==
    /\ pc = "except"
    /\ stdout' = Append(stdout, ErrorLine(raised))
    /\ pc' = "done"
    /\ exitCode' = 0
    /\ UNCHANGED <<kind, files, run, img, idx, resized_img, raised, writes,
                   produced, kind0, files0, prevOk>>

\* the script is started again on the filesystem the last run left
Rerun ==
    /\ Ended
    /\ run < MaxRuns
    /\ run' = run + 1
    /\ pc' = "prep_dest"
    /\ img' = NoImage
    /\ idx' = 0
    /\ resized_img' = NoImage
    /\ stdout' = <<>>
    /\ exitCode' = -1
    /\ raised' = ""
    /\ writes' = <<>>
    /\ produced' = <<>>
    /\ kind0' = kind
    /\ files0' = files
    /\ prevOk' = Succeeded
    /\ UNCHANGED <<kind, files>>

Next ==
    \/ PrepareDestDir
    \/ PrepareDistDir
    \/ OpenImage
    \/ ForSize
    \/ ResizeImage
    \/ SaveSrc
    \/ PrintSrc
    \/ SaveDist
    \/ PrintDist
    \/ HandleException
    \/ Rerun

Spec == Init /\ [][Next]_vars

-----------------------------------------------------------------------------
(* Vocabulary of the properties *)

DeclaredSizes == {16, 48, 128}

IconName(s) == IF s = 16 THEN "icon16.png"
               ELSE IF s = 48 THEN "icon48.png" ELSE "icon128.png"

IconPath(d, s) == d \o "\\" \o IconName(s)

IsSavedLine(l) == \E p \in AllPaths : l = "Saved " \o p
IsErrorLine(l) == \E m \in Messages : l = "Error processing image: " \o m

SavedLines == SelectSeq(stdout, IsSavedLine)
ErrorLines == SelectSeq(stdout, IsErrorLine)

WrittenPaths == {writes[i].path : i \in 1..Len(writes)}
ProducedSizes == {produced[i] : i \in 1..Len(produced)}

\* names present in destination directory d
Listing(d) == {n \in Names : files[Join(d, n)] # NoFile}
Listing0(d) == {n \in Names : files0[Join(d, n)] # NoFile}

Failed == raised # ""

\* the directory-preparation step of this run has completed
Prepared == pc \notin {"prep_dest", "prep_dist", "crashed"}

\* Image.open was reached in this run and raised
LoadFailed ==
    /\ files0[source_path].kind \in {"none", "corrupt"}
    /\ \/ Prepared /\ pc # "open"
       \/ raised \in {"No such file or directory", "cannot identify image file"}

-----------------------------------------------------------------------------
(* C1 *)

IconsAsDeclared ==
    \A d \in DestDirs : \A s \in DeclaredSizes :
        LET f == files[IconPath(d, s)] IN
        f.kind = "image" /\ f.w = s /\ f.h = s

\* C1 (as amended): after a run in which every step succeeded, both
\* destination directories hold icon16.png, icon48.png and icon128.png, each an
\* image of the declared dimensions, and hold no other file than these three
\* and the files that were there before the run.
C1_IconsPlusOldFiles ==
    Succeeded =>
        /\ IconsAsDeclared
        /\ \A d \in DestDirs : Listing(d) = IconNames \cup Listing0(d)

\* C1 (as stated): after such a run both directories hold exactly the three
\* icon files, of the declared dimensions.
C1_ExactlyThreeFiles ==
    Succeeded =>
        /\ IconsAsDeclared
        /\ \A d \in DestDirs : Listing(d) = IconNames

C1_Witness ==
    /\ Succeeded
    /\ img.w # img.h
    /\ "readme.txt" \in Listing0(dest_dir)
    /\ Listing0(dist_dir) = {}

-----------------------------------------------------------------------------
(* C2 *)

\* C2: when Image.open fails (source missing or unidentifiable) the run
\* changes no file, writes and produces nothing, prints no "Saved" line, and
\* ends normally having printed exactly the error line.
C2_LoadFailureWritesNothing ==
    LoadFailed =>
        /\ files = files0
        /\ writes = <<>>
        /\ produced = <<>>
        /\ SavedLines = <<>>
        /\ pc \in {"except", "done"}
        /\ pc = "done" => /\ exitCode = 0
                          /\ Len(stdout) = 1
                          /\ IsErrorLine(stdout[1])

C2_Witness ==
    /\ LoadFailed
    /\ pc = "done"
    /\ files0[source_path].kind = "corrupt"
    /\ "icon16.png" \in Listing0(dest_dir)

-----------------------------------------------------------------------------
(* C3 *)

\* C3: every failure, one raised while creating a destination directory
\* included, is caught and printed, and the process ends normally.
C3_EveryFailureCaught ==
    Ended =>
        /\ pc = "done"
        /\ exitCode = 0
        /\ Failed => /\ stdout # <<>>
                     /\ stdout[Len(stdout)] = "Error processing image: " \o raised

-----------------------------------------------------------------------------
(* C4 *)

\* C4: a run that follows a fully successful run on the same source leaves
\* the filesystem exactly as that first run left it.
C4_SecondRunChangesNothing ==
    (run >= 2 /\ prevOk /\ Ended) => (kind = kind0 /\ files = files0)

C4_Witness ==
    /\ run >= 2
    /\ prevOk
    /\ Succeeded
    /\ Len(writes) = 6
    /\ "readme.txt" \in Listing(dist_dir)

-----------------------------------------------------------------------------
(* C5 *)

\* nothing that existed when the run started has been removed
NothingDeleted ==
    /\ \A x \in Dirs : kind0[x] # "absent" => kind[x] = kind0[x]
    /\ \A p \in AllPaths : files0[p] # NoFile => files[p] # NoFile

\* what the preparation step does to destination path d
PreparedDir(d) ==
    /\ kind0[d] = "absent" => (kind[d] = "dir" /\ kind[Parent(d)] = "dir")
    /\ kind0[d] # "absent" => kind[d] = kind0[d]

\* C5 (as amended): once the preparation step has completed, every destination
\* path that was absent is a directory (its parent too), every destination path
\* that already existed, as a directory or as anything else, is what it was,
\* with its contents untouched; the step raises nothing when both paths
\* already exist and never deletes anything; and a destination directory that
\* was absent before a successful run is non-empty after it.
C5_PreparationCreatesOnlyMissing ==
    /\ NothingDeleted
    /\ Prepared => \A d \in DestDirs : PreparedDir(d)
    /\ pc = "open" => files = files0
    /\ (\A d \in DestDirs : kind0[d] # "absent") => pc # "crashed"
    /\ Succeeded => \A d \in DestDirs : kind0[d] = "absent" => Listing(d) # {}

\* C5 (as stated): once the preparation step has completed, both destination
\* paths are directories, whatever the filesystem was before.
C5_BothAreDirectories ==
    /\ C5_PreparationCreatesOnlyMissing
    /\ Prepared => \A d \in DestDirs : kind[d] = "dir"

C5_Witness ==
    /\ Succeeded
    /\ run = 1
    /\ kind0[dest_dir] = "absent"
    /\ kind0[Parent(dest_dir)] = "absent"
    /\ "readme.txt" \in Listing0(dist_dir)

-----------------------------------------------------------------------------
(* C6 *)

\* C6: standard output holds only "Saved <path>" lines and at most one error
\* line; the k-th "Saved" line names the path of the k-th write that succeeded;
\* when the run has ended there is one "Saved" line per file written (six
\* after a full success); the error line, if any, is the last line.
C6_OutputMatchesWrites ==
    /\ Len(SavedLines) + Len(ErrorLines) = Len(stdout)
    /\ Len(SavedLines) <= Len(writes)
    /\ \A i \in 1..Len(SavedLines) : SavedLines[i] = "Saved " \o writes[i].path
    /\ Ended => Len(SavedLines) = Len(writes)
    /\ Succeeded => Len(SavedLines) = 6
    /\ Len(ErrorLines) <= 1
    /\ \A i \in 1..Len(stdout) : IsErrorLine(stdout[i]) => i = Len(stdout)

C6_Witness ==
    /\ pc = "done"
    /\ Failed
    /\ Len(writes) = 3
    /\ Len(stdout) = 4

-----------------------------------------------------------------------------
(* C7 *)

NoRepeat(seq) == \A i, j \in 1..Len(seq) : seq[i] = seq[j] => i = j

\* what holds of the writes of every run, failing or not
WritesOnlyIcons ==
    /\ ProducedSizes \subseteq DeclaredSizes
    /\ NoRepeat(produced)
    /\ NoRepeat(writes)
    /\ \A i \in 1..Len(writes) :
          \E d \in DestDirs : \E s \in ProducedSizes :
             /\ writes[i].path = IconPath(d, s)
             /\ writes[i].data.w = s
    /\ \A p \in AllPaths : files[p] # files0[p] => p \in WrittenPaths
    /\ source_path \notin WrittenPaths
    /\ files[source_path] = files0[source_path]

AllSixWritten ==
    /\ ProducedSizes = DeclaredSizes
    /\ WrittenPaths = {IconPath(d, s) : d \in DestDirs, s \in DeclaredSizes}

\* C7 (as amended): in every run each produced size is one of 16, 48, 128,
\* each file written is icon<size>.png of a produced size under the src-side or
\* the dist-side directory, no path is written twice, no other file changes
\* and the source image is never written; in every run that ends without a
\* failure the produced sizes are exactly {16, 48, 128} and each is written to
\* exactly the two locations.
C7_WritesOnlyIconsAllOnSuccess ==
    /\ WritesOnlyIcons
    /\ Succeeded => AllSixWritten

\* C7 (as stated): in every run the produced sizes are exactly {16, 48, 128}
\* and each is written to exactly two locations.
C7_EveryRunWritesAllSix ==
    /\ WritesOnlyIcons
    /\ pc = "done" => AllSixWritten

C7_Witness ==
    /\ Succeeded
    /\ Len(writes) = 6
    /\ Len(produced) = 3

-----------------------------------------------------------------------------
(* C8 *)

WriteOrder == <<IconPath(dest_dir, 16), IconPath(dist_dir, 16),
                IconPath(dest_dir, 48), IconPath(dist_dir, 48),
                IconPath(dest_dir, 128), IconPath(dist_dir, 128)>>

InListedOrder ==
    /\ Len(writes) <= 6
    /\ \A i \in 1..Len(writes) : writes[i].path = WriteOrder[i]
    /\ \A i \in 1..Len(produced) : produced[i] = <<16, 48, 128>>[i]

\* C8: the files are written in the order src 16, dist 16, src 48, dist 48,
\* src 128, dist 128, and after a failure the run neither resizes nor writes
\* again.
C8_OrderedAndAbortsOnFailure ==
    /\ []InListedOrder
    /\ [][(Failed /\ run' = run) =>
             (writes' = writes /\ files' = files /\ produced' = produced)]_vars

C8_Witness ==
    /\ pc = "done"
    /\ Failed
    /\ Len(writes) = 3
    /\ Len(produced) = 2

-----------------------------------------------------------------------------
(* C9 *)

\* C9: after a failure that follows at least one write, every file written
\* holds what was written to it, none was written twice, and standard output
\* is the "Saved" lines of those writes followed by the single error line.
C9_PartialResultStays ==
    (pc = "done" /\ Failed /\ writes # <<>>) =>
        /\ \A i \in 1..Len(writes) : files[writes[i].path] = writes[i].data
        /\ NoRepeat(writes)
        /\ Len(stdout) = Len(writes) + 1
        /\ \A i \in 1..Len(writes) : stdout[i] = "Saved " \o writes[i].path
        /\ stdout[Len(stdout)] = "Error processing image: " \o raised

C9_Witness ==
    /\ pc = "done"
    /\ Failed
    /\ Len(writes) = 4
    /\ files0[IconPath(dest_dir, 16)] = Stale

-----------------------------------------------------------------------------
(* C10 *)

SrcWritten == {s \in DeclaredSizes : IconPath(dest_dir, s) \in WrittenPaths}
DistWritten == {s \in DeclaredSizes : IconPath(dist_dir, s) \in WrittenPaths}
Prefixes == {{}, {16}, {16, 48}, {16, 48, 128}}

\* C10: at every moment of a run the sizes written src-side and the sizes
\* written dist-side are prefixes of 16, 48, 128, the dist-side ones are among
\* the src-side ones, and at most one size is written src-side only.
C10_PrefixesOneApart ==
    /\ SrcWritten \in Prefixes
    /\ DistWritten \in Prefixes
    /\ DistWritten \subseteq SrcWritten
    /\ Cardinality(SrcWritten \ DistWritten) <= 1

C10_Witness ==
    /\ pc = "done"
    /\ Failed
    /\ SrcWritten = {16, 48}
    /\ DistWritten = {16}

====
